---- MODULE Spec2Model ----
(***************************************************************************)
(* Model of the multi-agent research pipeline of app.py: the "Start        *)
(* Research" handler, the three agent functions it calls                   *)
(* (create_research_plan, conduct_research, write_summary_report) and      *)
(* st.session_state.  The handler blocks at each Model Gateway call        *)
(* (generate_content), so it is cut into one action per stretch of code    *)
(* between two such calls.                                                 *)
(***************************************************************************)
EXTENDS Integers, Sequences, FiniteSets, TLC

VARIABLES state, run, topic, session_state, research_findings,
          outstanding, calls, replies, trace, mock, history

vars == <<state, run, topic, session_state, research_findings,
          outstanding, calls, replies, trace, mock, history>>

(***************************************************************************)
(* Bounds                                                                  *)
(***************************************************************************)
\* number of "Start Research" clicks explored
MaxRuns == 2
\* longest JSON array of questions the planner gateway returns
MaxPlanLen == 3

(***************************************************************************)
(* Text: a Python str is a sequence of pieces (characters or literal       *)
(* fragments of an f-string), each a TLA+ string.                          *)
(***************************************************************************)
Whitespace == {" ", "\n"}

RECURSIVE LStrip(_)
LStrip(s) ==
    IF s # <<>> /\ Head(s) \in Whitespace THEN LStrip(Tail(s)) ELSE s

RECURSIVE RStrip(_)
RStrip(s) ==
    IF s # <<>> /\ s[Len(s)] \in Whitespace
    THEN RStrip(SubSeq(s, 1, Len(s) - 1))
    ELSE s

\* str.strip()
Strip(s) == RStrip(LStrip(s))

(***************************************************************************)
(* JSON text is a sequence of tokens; json.loads is modelled on the flat   *)
(* fragment of JSON the planner responses below are drawn from: a scalar,  *)
(* an array of scalars, an object with scalar values.                      *)
(***************************************************************************)
Tok(t, v) == [t |-> t, v |-> v]

LBRACK == Tok("[", "")
RBRACK == Tok("]", "")
LBRACE == Tok("{", "")
RBRACE == Tok("}", "")
COMMA  == Tok(",", "")
COLON  == Tok(":", "")

ScalarKinds == {"string", "number", "null", "true", "false"}

IsScalarTok(tok) == tok.t \in ScalarKinds

\* a parsed scalar: its JSON kind and its text
Item(tok) == [type |-> tok.t, val |-> tok.v]

\* str(x) as an f-string formats a parsed scalar
Str(item) ==
    CASE item.type = "null"  -> "None"
      [] item.type = "true"  -> "True"
      [] item.type = "false" -> "False"
      [] OTHER               -> item.val

\* a parsed JSON value: items is what iterating the Python object yields
\* (elements of a list, keys of a dict, characters of a str)
Value(type, items, num) == [type |-> type, items |-> items, num |-> num]

DecodeError == Value("JSONDecodeError", <<>>, 0)

\* the characters of the string scalars used below
Chars(v) ==
    CASE v = ""   -> <<>>
      [] v = "ab" -> <<"a", "b">>
      [] OTHER    -> <<v>>

NumOf(v) == IF v = "0" THEN 0 ELSE 7

ParseScalar(tok) ==
    CASE tok.t = "string" ->
            Value("string",
                  [k \in 1..Len(Chars(tok.v)) |->
                      [type |-> "string", val |-> Chars(tok.v)[k]]], 0)
      [] tok.t = "number" -> Value("number", <<>>, NumOf(tok.v))
      [] tok.t = "true"   -> Value("bool", <<>>, 1)
      [] tok.t = "false"  -> Value("bool", <<>>, 0)
      [] OTHER            -> Value("null", <<>>, 0)

\* inner = scalar (, scalar)*
IsElements(inner) ==
    /\ Len(inner) % 2 = 1
    /\ \A k \in 1..Len(inner) :
          IF k % 2 = 1 THEN IsScalarTok(inner[k]) ELSE inner[k] = COMMA

Elements(inner) ==
    [k \in 1..((Len(inner) + 1) \div 2) |-> Item(inner[2 * k - 1])]

\* inner = string : scalar (, string : scalar)*
IsMembers(inner) ==
    /\ Len(inner) % 4 = 3
    /\ \A k \in 1..Len(inner) :
          CASE k % 4 = 1 -> inner[k].t = "string"
            [] k % 4 = 2 -> inner[k] = COLON
            [] k % 4 = 3 -> IsScalarTok(inner[k])
            [] OTHER     -> inner[k] = COMMA

RECURSIVE Dedupe(_)
\* a dict keeps one entry per key, in order of first insertion
Dedupe(keys) ==
    IF keys = <<>> THEN <<>>
    ELSE LET rest == Dedupe(SubSeq(keys, 1, Len(keys) - 1))
             last == keys[Len(keys)]
         IN  IF \E k \in 1..Len(rest) : rest[k] = last
             THEN rest
             ELSE Append(rest, last)

Keys(inner) ==
    Dedupe([k \in 1..((Len(inner) + 1) \div 4) |-> Item(inner[4 * k - 3])])

\* json.loads(response.text)
JsonLoads(text) ==
    LET n     == Len(text)
        inner == SubSeq(text, 2, n - 1)
    IN  CASE n = 0 -> DecodeError
          [] n = 1 -> IF IsScalarTok(text[1]) THEN ParseScalar(text[1])
                      ELSE DecodeError
          [] n >= 2 /\ text[1] = LBRACK /\ text[n] = RBRACK ->
                IF inner = <<>> THEN Value("array", <<>>, 0)
                ELSE IF IsElements(inner)
                     THEN Value("array", Elements(inner), 0)
                     ELSE DecodeError
          [] n >= 2 /\ text[1] = LBRACE /\ text[n] = RBRACE ->
                IF inner = <<>> THEN Value("object", <<>>, 0)
                ELSE IF IsMembers(inner)
                     THEN Value("object", Keys(inner), 0)
                     ELSE DecodeError
          [] OTHER -> DecodeError

\* Python truth value: `if not plan`
Truthy(v) ==
    CASE v.type \in {"array", "object", "string"} -> Len(v.items) > 0
      [] v.type \in {"number", "bool"}            -> v.num # 0
      [] OTHER                                    -> FALSE

\* enumerate(plan) / len(plan) raise TypeError on anything else
Iterable(v) == v.type \in {"array", "object", "string"}

(***************************************************************************)
(* The Model Gateway (generate_content): every call either raises or       *)
(* returns a response whose .text is the raw text.                         *)
(***************************************************************************)
Failed == [ok |-> FALSE, text |-> <<>>]
Reply(text) == [ok |-> TRUE, text |-> text]

Topics == {"", "solar panels"}

Q1 == Tok("string", "What is a solar panel?")
Q2 == Tok("string", "How efficient are they?")

RECURSIVE Join(_)
\* scalar tokens separated by commas
Join(toks) ==
    IF Len(toks) <= 1 THEN toks
    ELSE <<Head(toks), COMMA>> \o Join(Tail(toks))

ArrayText(toks) == <<LBRACK>> \o Join(toks) \o <<RBRACK>>

\* every array of at most MaxPlanLen questions, duplicates included
QuestionArrays ==
    { ArrayText(toks) :
        toks \in UNION { [1..n -> {Q1, Q2}] : n \in 0..MaxPlanLen } }

\* the prompt asks for 3 to 5 questions
PromptMaxQuestions == 5

\* an array longer than the prompt asks for
LongArrays == { ArrayText(<<Q1, Q2, Q2, Q1, Q2, Q1>>) }

\* well-formed JSON that is not an array of strings
WrongShapeTexts ==
    { <<LBRACE, RBRACE>>,
      <<LBRACE, Q1, COLON, Tok("number", "7"), RBRACE>>,
      <<LBRACE, Q1, COLON, Q2, COMMA, Q1, COLON, Tok("null", ""), RBRACE>>,
      <<Tok("string", "ab")>>,
      <<Tok("string", "")>>,
      <<Tok("number", "7")>>,
      <<Tok("number", "0")>>,
      <<Tok("null", "")>>,
      <<Tok("true", "")>>,
      <<Tok("false", "")>>,
      <<LBRACK, Tok("number", "7"), COMMA, Q1, RBRACK>>,
      <<LBRACK, Tok("null", ""), RBRACK>> }

\* text json.loads rejects
MalformedTexts ==
    { <<>>,
      <<LBRACK, Q1>>,
      <<LBRACK, Q1, COMMA, RBRACK>>,
      <<LBRACK, Q1, Q2, RBRACK>>,
      <<Q1, COMMA, Q2>>,
      <<LBRACE, Q1, RBRACE>> }

PlannerTexts ==
    QuestionArrays \cup LongArrays \cup WrongShapeTexts \cup MalformedTexts

PlannerResponses == {Failed} \cup { Reply(t) : t \in PlannerTexts }

ResearcherTexts ==
    { <<"Answer-A">>, <<" ", "Answer-B", "\n">>, <<"\n", " ">> }

ResearcherResponses == {Failed} \cup { Reply(t) : t \in ResearcherTexts }

WriterTexts == { <<"Final Report Text">>, <<" ", "# Report", "\n">> }

WriterResponses == {Failed} \cup { Reply(t) : t \in WriterTexts }

\* what the gateway may answer to a call of each stage
Responses(stage) ==
    CASE stage = "planner"    -> PlannerResponses
      [] stage = "researcher" -> ResearcherResponses
      [] OTHER                -> WriterResponses

\* A mocked gateway answers a fixed input with a fixed output: one planner
\* response for the topic, one researcher response per question, one
\* writer response.
MockKeys == {Q1.v, Q2.v, "other"}

MockKey(question) ==
    IF Str(question) \in MockKeys THEN Str(question) ELSE "other"

Mocks ==
    [fixed : {TRUE}, planner : PlannerResponses,
     researcher : [MockKeys -> ResearcherResponses],
     writer : WriterResponses]

\* the real gateway: any answer to any call
RealGateway ==
    [fixed |-> FALSE, planner |-> Failed,
     researcher |-> [q \in MockKeys |-> Failed], writer |-> Failed]

\* the answers generate_content can give to call c
Gateway(c) ==
    IF ~mock.fixed THEN Responses(c.stage)
    ELSE CASE c.stage = "planner"    -> {mock.planner}
           [] c.stage = "researcher" ->
                 {mock.researcher[MockKey(c.question[1])]}
           [] OTHER                  -> {mock.writer}

(***************************************************************************)
(* The three agents                                                        *)
(***************************************************************************)
EmptyList == Value("array", <<>>, 0)

\* the plan is cut down to the number of questions the prompt asks for
create_research_plan_Capped(resp) ==
    IF ~resp.ok THEN EmptyList
    ELSE IF JsonLoads(resp.text) = DecodeError THEN EmptyList
         ELSE LET plan == JsonLoads(resp.text)
              IN  [plan EXCEPT !.items =
                      SubSeq(@, 1, IF Len(@) > PromptMaxQuestions
                                   THEN PromptMaxQuestions ELSE Len(@))]

\* Agent 1: the value create_research_plan returns
create_research_plan(resp) ==
    IF ~resp.ok THEN EmptyList
    ELSE IF JsonLoads(resp.text) = DecodeError THEN EmptyList
         ELSE JsonLoads(resp.text)

Ev(ev, idx) == [ev |-> ev, idx |-> idx]

\* the st.error calls of create_research_plan
planner_errors(resp) ==
    IF ~resp.ok THEN <<Ev("error_planner_unexpected", 0)>>
    ELSE IF JsonLoads(resp.text) = DecodeError
         THEN <<Ev("error_planner_parse", 0)>>
         ELSE <<>>

\* the placeholder does not name the question
conduct_research_Anonymous(question, resp) ==
    IF resp.ok THEN Strip(resp.text)
    ELSE <<"Error: Could not retrieve research.">>

\* Agent 2: the answer conduct_research returns for one question
conduct_research(question, resp) ==
    IF resp.ok THEN Strip(resp.text)
    ELSE <<"Error: Could not retrieve research for '", Str(question), "'.">>

\* the report is trimmed
write_summary_report_Trimmed(resp) ==
    IF resp.ok THEN Strip(resp.text)
    ELSE <<"Error: Could not generate the final report.">>

\* Agent 3: the report write_summary_report returns
write_summary_report(resp) ==
    IF resp.ok THEN resp.text
    ELSE <<"Error: Could not generate the final report.">>

(***************************************************************************)
(* st.session_state: each key is absent (<<>>) or holds one value; run is  *)
(* the "Start Research" click that stored it.                              *)
(***************************************************************************)
Stored(val) == <<[val |-> val, run |-> run]>>

\* a session_state with no key set
EmptySession == [plan |-> <<>>, findings |-> <<>>, report |-> <<>>]

\* the session is not cleared
ClearedSession_Kept(s) == s

\* st.session_state.clear()
ClearedSession(s) == EmptySession

NoCalls == [planner |-> 0, researcher |-> 0, writer |-> 0]

Call(stage, idx, question, findings) ==
    [stage |-> stage, idx |-> idx, question |-> question,
     findings |-> findings]

\* the check on the topic left out
TopicAccepted_Always(t) == TRUE

\* `if not topic` refuses the request
TopicAccepted(t) == t # ""

\* the check on the plan left out
PlanAccepted_Always(plan) == TRUE

\* `if not plan` stops the run
PlanAccepted(plan) == Truthy(plan)

\* every remaining question is sent at once
ResearchCalls_FanOut(items, done) ==
    { Call("researcher", k, <<items[k]>>, <<>>) : k \in (done + 1)..Len(items) }

\* two questions are kept in flight at a time
ResearchCalls_TwoAtOnce(items, done) ==
    IF done = 0
    THEN { Call("researcher", k, <<items[k]>>, <<>>) :
              k \in 1..(IF Len(items) < 2 THEN Len(items) ELSE 2) }
    ELSE IF done + 2 <= Len(items)
         THEN { Call("researcher", done + 2, <<items[done + 2]>>, <<>>) }
         ELSE {}

\* the loop stops one item early
ResearchCalls_OffByOne(items, done) ==
    IF done < Len(items) - 1
    THEN { Call("researcher", done + 1, <<items[done + 1]>>, <<>>) }
    ELSE {}

\* the loop walks the plan backwards
ResearchCalls_Reversed(items, done) ==
    IF done < Len(items)
    THEN { Call("researcher", done + 1, <<items[Len(items) - done]>>, <<>>) }
    ELSE {}

\* every question is asked twice
ResearchCalls_Retry(items, done) ==
    IF done < 2 * Len(items)
    THEN { Call("researcher", (done \div 2) + 1,
                <<items[(done \div 2) + 1]>>, <<>>) }
    ELSE {}

\* the researcher calls issued once `done` findings have been appended:
\* the loop body runs for the next item only
ResearchCalls(items, done) ==
    IF done < Len(items)
    THEN { Call("researcher", done + 1, <<items[done + 1]>>, <<>>) }
    ELSE {}

\* the writer is never called
WriterCalls_None(findings) == {}

\* the writer call, issued with the findings stored in session_state
WriterCalls(findings) == { Call("writer", 0, <<>>, findings) }

\* the gateway's answer to call c, as the run received it
Received(c, resp) ==
    [stage |-> c.stage, idx |-> c.idx, question |-> c.question,
     findings |-> c.findings, ok |-> resp.ok, text |-> resp.text]

\* the values st.session_state holds
SessionValues(s) ==
    [key \in {"plan", "findings", "report"} |->
        IF s[key] = <<>> THEN <<>> ELSE <<s[key][1].val>>]

\* what a finished run leaves for its caller to see
Summary ==
    [topic |-> topic, state |-> state, replies |-> replies, trace |-> trace,
     session |-> SessionValues(session_state)]

\* under a mocked gateway the finished accepted runs are kept for comparison
Recorded ==
    IF mock.fixed /\ run > 0 /\ topic # ""
    THEN Append(history, Summary)
    ELSE history

\* the status label and the call of one pass through the loop body
ProgressEvents_Late(k) == <<Ev("researcher_call", k), Ev("progress", k)>>

ProgressEvents(k) == <<Ev("progress", k), Ev("researcher_call", k)>>

Init ==
    /\ state = "Idle"
    /\ run = 0
    /\ topic = ""
    /\ session_state = EmptySession
    /\ research_findings = <<>>
    /\ outstanding = {}
    /\ calls = NoCalls
    /\ replies = <<>>
    /\ trace = <<>>
    /\ mock = RealGateway
    /\ history = <<>>

\* the same page in front of a mocked gateway
InitMock ==
    /\ state = "Idle"
    /\ run = 0
    /\ topic = ""
    /\ session_state = EmptySession
    /\ research_findings = <<>>
    /\ outstanding = {}
    /\ calls = NoCalls
    /\ replies = <<>>
    /\ trace = <<>>
    /\ mock \in Mocks
    /\ history = <<>>

\* the script is not running: a click on "Start Research" starts a run
CanClick ==
    /\ state \in {"Idle", "Done", "Aborted"}
    /\ outstanding = {}
    /\ run < MaxRuns

\* "Start Research" with a topic the handler refuses
RejectEmptyTopic ==
    /\ CanClick
    /\ \E t \in Topics :
          /\ ~TopicAccepted(t)
          /\ topic' = t
    /\ run' = run + 1
    /\ state' = "Idle"
    /\ trace' = <<Ev("error_empty_topic", 0)>>
    /\ calls' = NoCalls
    /\ replies' = <<>>
    /\ research_findings' = <<>>
    /\ history' = Recorded
    /\ UNCHANGED <<session_state, outstanding, mock>>

\* "Start Research" with a topic: clear the session, call the planner
StartResearch ==
    /\ CanClick
    /\ \E t \in Topics :
          /\ TopicAccepted(t)
          /\ topic' = t
    /\ run' = run + 1
    /\ session_state' = ClearedSession(session_state)
    /\ state' = "Planning"
    /\ outstanding' = { Call("planner", 0, <<>>, <<>>) }
    /\ calls' = [NoCalls EXCEPT !.planner = 1]
    /\ trace' = <<Ev("planner_call", 0)>>
    /\ replies' = <<>>
    /\ research_findings' = <<>>
    /\ history' = Recorded
    /\ UNCHANGED mock

\* the research loop from the point where `found` holds the findings so
\* far: the next question is sent to the researcher or, when the plan is
\* exhausted, the findings are stored and the writer is called
ResearchLoop(c, session, found, shown) ==
    LET next == ResearchCalls(session.plan[1].val.items, Len(found))
    IN  /\ research_findings' = found
        /\ IF next # {}
           THEN /\ session_state' = session
                /\ state' = "Researching"
                /\ outstanding' = (outstanding \ {c}) \cup next
                /\ calls' = [calls EXCEPT
                                !.researcher = @ + Cardinality(next)]
                /\ trace' = shown \o ProgressEvents(Len(found) + 1)
           ELSE /\ session_state' =
                      [session EXCEPT !.findings = Stored(found)]
                /\ state' = "Writing"
                /\ outstanding' = (outstanding \ {c}) \cup WriterCalls(found)
                /\ calls' = [calls EXCEPT !.writer = @ + 1]
                /\ trace' = shown \o <<Ev("status_research_complete", 0),
                                       Ev("findings_ready", 0),
                                       Ev("writer_call", 0)>>

\* the planner call returns: plan check, plan display, start of the loop
PlannerReturns ==
    \E c \in outstanding :
     \E resp \in Gateway(c) :
       /\ c.stage = "planner"
       /\ replies' = Append(replies, Received(c, resp))
       /\ LET plan == create_research_plan(resp)
              errs == <<Ev("planner_returned", 0)>> \o planner_errors(resp)
          IN  IF ~PlanAccepted(plan)
              THEN \* status "Planner Agent failed", st.stop()
                   /\ state' = "Aborted"
                   /\ outstanding' = outstanding \ {c}
                   /\ trace' = trace \o errs
                                 \o <<Ev("status_planner_failed", 0)>>
                   /\ UNCHANGED <<session_state, research_findings, calls>>
              ELSE IF ~Iterable(plan)
              THEN \* enumerate(st.session_state.plan, 1) raises TypeError
                   /\ session_state' =
                         [session_state EXCEPT !.plan = Stored(plan)]
                   /\ state' = "Aborted"
                   /\ outstanding' = outstanding \ {c}
                   /\ trace' = trace \o errs
                                 \o <<Ev("status_plan_created", 0),
                                      Ev("uncaught_TypeError", 0)>>
                   /\ UNCHANGED <<research_findings, calls>>
              ELSE ResearchLoop(c,
                      [session_state EXCEPT !.plan = Stored(plan)],
                      <<>>,
                      trace \o errs \o <<Ev("status_plan_created", 0),
                                         Ev("plan_ready", 0)>>)
       /\ UNCHANGED <<run, topic, mock, history>>

\* a researcher call returns: append the finding and go on with the loop
ResearcherReturns ==
    \E c \in outstanding :
     \E resp \in Gateway(c) :
       /\ c.stage = "researcher"
       /\ replies' = Append(replies, Received(c, resp))
       /\ LET question == c.question[1]
              answer   == conduct_research(question, resp)
              found    == Append(research_findings,
                                 [question |-> question, answer |-> answer])
              errs     == <<Ev("researcher_returned", c.idx)>>
                          \o (IF resp.ok THEN <<>>
                              ELSE <<Ev("error_researcher", c.idx)>>)
          IN  ResearchLoop(c, session_state, found, trace \o errs)
       /\ UNCHANGED <<run, topic, mock, history>>

\* the writer call returns: store the report and display it
WriterReturns ==
    \E c \in outstanding :
     \E resp \in Gateway(c) :
       /\ c.stage = "writer"
       /\ replies' = Append(replies, Received(c, resp))
       /\ LET final_report == write_summary_report(resp)
              errs == <<Ev("writer_returned", 0)>>
                      \o (IF resp.ok THEN <<>> ELSE <<Ev("error_writer", 0)>>)
          IN  /\ session_state' =
                    [session_state EXCEPT !.report = Stored(final_report)]
              /\ trace' = trace \o errs
                            \o <<Ev("status_report_generated", 0),
                                 Ev("report_ready", 0)>>
       /\ state' = "Done"
       /\ outstanding' = outstanding \ {c}
       /\ UNCHANGED <<run, topic, research_findings, calls, mock, history>>

Next ==
    \/ RejectEmptyTopic
    \/ StartResearch
    \/ PlannerReturns
    \/ ResearcherReturns
    \/ WriterReturns

Spec == Init /\ [][Next]_vars

\* the pipeline in front of a mocked gateway
SpecMock == InitMock /\ [][Next]_vars

\* every gateway call eventually returns or fails
FairSpec ==
    /\ Spec
    /\ WF_vars(PlannerReturns)
    /\ WF_vars(ResearcherReturns)
    /\ WF_vars(WriterReturns)

(***************************************************************************)
(* What the properties below read off the state                            *)
(***************************************************************************)
\* the gateway replies of this run for one stage
RepliesOf(stage) ==
    { k \in 1..Len(replies) : replies[k].stage = stage }

Shown(ev) == \E k \in 1..Len(trace) : trace[k].ev = ev

\* the planner gateway raised, or its text does not parse, or it parses
\* to the empty array
PlannerFailedOrEmpty ==
    \E k \in RepliesOf("planner") :
       \/ ~replies[k].ok
       \/ JsonLoads(replies[k].text) = DecodeError
       \/ JsonLoads(replies[k].text) = Value("array", <<>>, 0)

WriterFailed == \E k \in RepliesOf("writer") : ~replies[k].ok

PlanItems == session_state.plan[1].val.items

FindingSet == session_state.findings[1].val

\* the parsed planner text is an array whose elements are all strings
IsArrayOfStrings(v) ==
    /\ v.type = "array"
    /\ \A k \in 1..Len(v.items) : v.items[k].type = "string"

(***************************************************************************)
(* C1: when the Plan Generator fails (gateway failure or unparseable      *)
(* text) or returns an empty plan, the run is Aborted and no researcher    *)
(* or writer call is issued in that run.                                   *)
(***************************************************************************)
C1_EmptyPlanAborts ==
    PlannerFailedOrEmpty =>
       /\ state = "Aborted"
       /\ calls.researcher = 0
       /\ calls.writer = 0
       /\ outstanding = {}
       /\ session_state.plan = <<>>

C1_Witness ==
    /\ state = "Aborted"
    /\ \E k \in RepliesOf("planner") :
          replies[k].ok /\ replies[k].text = <<LBRACK, RBRACK>>

(***************************************************************************)
(* C2: when the Report Synthesizer's gateway call fails the run is         *)
(* Aborted, never Done, and no report is stored or shown.                  *)
(***************************************************************************)
C2_WriterFailureAborts ==
    WriterFailed =>
       /\ state = "Aborted"
       /\ session_state.report = <<>>
       /\ ~Shown("report_ready")

(***************************************************************************)
(* C3: whatever researcher calls fail, once every plan item has been       *)
(* answered the run is in Writing or Done, the stored findings are as long *)
(* as the plan, a failed index holds a placeholder naming its question, a  *)
(* successful index holds the gateway's text (trimmed), the writer is      *)
(* called with exactly these findings, and a successful writer call ends   *)
(* in Done.                                                                *)
(***************************************************************************)
C3_ResearchDegrades ==
    /\ RepliesOf("researcher") # {} => state \in {"Researching", "Writing", "Done"}
    /\ (session_state.plan # <<>> /\ Iterable(session_state.plan[1].val)
        /\ Cardinality(RepliesOf("researcher")) = Len(PlanItems)) =>
          /\ state \in {"Writing", "Done"}
          /\ session_state.findings # <<>>
          /\ Len(FindingSet) = Len(PlanItems)
          /\ \A k \in RepliesOf("researcher") :
                LET i == replies[k].idx
                IN  IF replies[k].ok
                    THEN FindingSet[i].answer = Strip(replies[k].text)
                    ELSE /\ Head(FindingSet[i].answer)
                              = "Error: Could not retrieve research for '"
                         /\ FindingSet[i].answer[2] = Str(PlanItems[i])
          /\ state = "Writing" =>
                outstanding = { Call("writer", 0, <<>>, FindingSet) }
          /\ (\E k \in RepliesOf("writer") : replies[k].ok) => state = "Done"

\* a two-question plan whose researcher calls both failed reached Done
C3_Witness ==
    /\ state = "Done"
    /\ Len(PlanItems) = 2
    /\ \A k \in RepliesOf("researcher") : ~replies[k].ok
    /\ Cardinality(RepliesOf("researcher")) = 2

(***************************************************************************)
(* C4: the findings are built in plan order: the accumulator is always a   *)
(* prefix of the plan's questions and the stored FindingSet has exactly    *)
(* one finding per plan item, FindingSet[i].question = ResearchPlan[i].    *)
(***************************************************************************)
C4_FindingsFollowPlan ==
    /\ research_findings # <<>> =>
          /\ Len(research_findings) <= Len(PlanItems)
          /\ \A i \in 1..Len(research_findings) :
                research_findings[i].question = PlanItems[i]
    /\ session_state.findings # <<>> =>
          /\ Len(FindingSet) = Len(PlanItems)
          /\ \A i \in 1..Len(FindingSet) :
                FindingSet[i].question = PlanItems[i]

\* a plan with a duplicated question and a different one, fully researched
C4_Witness ==
    /\ session_state.findings # <<>>
    /\ Len(FindingSet) = 3
    /\ FindingSet[1].question = FindingSet[3].question
    /\ FindingSet[1].question # FindingSet[2].question
    /\ \E k \in RepliesOf("researcher") : ~replies[k].ok

(***************************************************************************)
(* C5: a request with an empty topic is refused: the run stays Idle and    *)
(* no gateway call of any stage is issued for it.                          *)
(***************************************************************************)
C5_EmptyTopicRefused ==
    (run > 0 /\ topic = "") =>
       /\ state = "Idle"
       /\ calls = NoCalls
       /\ outstanding = {}
       /\ replies = <<>>
       /\ ~Shown("planner_call")

\* an empty topic submitted after a completed run
C5_Witness ==
    /\ run > 1
    /\ topic = ""
    /\ session_state.report # <<>>
    /\ Shown("error_empty_topic")

(***************************************************************************)
(* C6: a planner response that is malformed or is not an array of strings  *)
(* aborts the run; the run never is in Researching, Writing or Done with   *)
(* such a value as its plan.                                               *)
(***************************************************************************)
C6_PlanShapeValidated ==
    \A k \in RepliesOf("planner") :
       (replies[k].ok /\ ~IsArrayOfStrings(JsonLoads(replies[k].text))) =>
          /\ state = "Aborted"
          /\ ~Shown("researcher_call")

(***************************************************************************)
(* C7: the state moves only forward along Idle -> Planning -> Researching  *)
(* -> Writing -> Done; Aborted is entered only from Planning or Writing;   *)
(* within a run Done and Aborted are terminal: nothing is outstanding      *)
(* there and no call is issued until the next request.                     *)
(***************************************************************************)
ForwardEdges ==
    { <<"Idle", "Planning">>, <<"Planning", "Researching">>,
      <<"Researching", "Writing">>, <<"Writing", "Done">>,
      <<"Planning", "Aborted">>, <<"Writing", "Aborted">> }

\* a new request leaves a finished run
RequestEdges ==
    { <<"Done", "Planning">>, <<"Aborted", "Planning">>,
      <<"Done", "Idle">>, <<"Aborted", "Idle">> }

C7_ForwardOnly ==
    [][ /\ state' # state =>
             \/ run' = run /\ <<state, state'>> \in ForwardEdges
             \/ run' = run + 1
                /\ <<state, state'>> \in RequestEdges \cup {<<"Idle", "Planning">>}
        /\ state \in {"Done", "Aborted"} =>
             /\ outstanding = {}
             /\ run' = run => UNCHANGED <<state, calls, outstanding>>
      ]_vars

\* a run went all the way to Done although a researcher call failed
C7_Witness ==
    /\ state = "Done"
    /\ outstanding = {}
    /\ \E k \in RepliesOf("researcher") : ~replies[k].ok
    /\ \E k \in RepliesOf("writer") : replies[k].ok

(***************************************************************************)
(* C8: at most one gateway call is outstanding; the researcher call for    *)
(* item k is outstanding only when the findings of items 1..k-1 have been  *)
(* appended; the writer call is outstanding only when the stored           *)
(* FindingSet has a finding for every plan item.                           *)
(***************************************************************************)
C8_OneCallAtATime ==
    /\ Cardinality(outstanding) <= 1
    /\ \A c \in outstanding :
          /\ c.stage = "researcher" =>
                /\ Len(research_findings) = c.idx - 1
                /\ RepliesOf("researcher") # {} =>
                      replies[Len(replies)].idx = c.idx - 1
                /\ session_state.findings = <<>>
          /\ c.stage = "writer" =>
                /\ session_state.findings # <<>>
                /\ Len(FindingSet) = Len(PlanItems)
                /\ c.findings = FindingSet
                /\ Cardinality(RepliesOf("researcher")) = Len(PlanItems)

\* the third researcher call is outstanding
C8_Witness ==
    \E c \in outstanding :
       /\ c.stage = "researcher"
       /\ c.idx = 3
       /\ Len(research_findings) = 2

(***************************************************************************)
(* C9: in every state of an accepted run, whatever session_state holds was *)
(* stored by that run; a run aborted in Planning holds nothing of an       *)
(* earlier run.                                                            *)
(***************************************************************************)
C9_SessionIsOfThisRun ==
    (run > 0 /\ topic # "") =>
       /\ \A key \in {"plan", "findings", "report"} :
             session_state[key] # <<>> => session_state[key][1].run = run
       /\ PlannerFailedOrEmpty => session_state = EmptySession
       /\ state = "Planning" => session_state = EmptySession

\* the second accepted run aborted in Planning
C9_Witness ==
    /\ run = 2
    /\ topic # ""
    /\ PlannerFailedOrEmpty
    /\ state = "Aborted"

(***************************************************************************)
(* C10: a finished run shows either a report or a failure, never both: a   *)
(* report is shown exactly when no Planning- or Writing-stage failure      *)
(* occurred, and a failure is reported exactly when one occurred.          *)
(***************************************************************************)
FailureShown ==
    \/ Shown("error_empty_topic")
    \/ Shown("error_planner_parse")
    \/ Shown("error_planner_unexpected")
    \/ Shown("status_planner_failed")
    \/ Shown("uncaught_TypeError")
    \/ Shown("error_writer")

C10_ReportOrFailure ==
    (run > 0 /\ state \in {"Idle", "Done", "Aborted"}) =>
       /\ Shown("report_ready") # FailureShown
       /\ WriterFailed => ~Shown("report_ready")

(***************************************************************************)
(* C11: no call is retried: the planner and the writer are called at most  *)
(* once per run, the researcher at most once per plan item, a failed       *)
(* researcher call included; a run in Done with a plan of N items has      *)
(* received exactly one researcher reply per item and has issued N + 2     *)
(* gateway calls.                                                          *)
(***************************************************************************)
\* the calls of one kind issued so far in this run, as the trace shows them
Issued(ev, idx) ==
    Cardinality({ k \in 1..Len(trace) : trace[k] = Ev(ev, idx) })

C11_NoRetry ==
    /\ calls.planner <= 1
    /\ calls.writer <= 1
    /\ calls.planner = Issued("planner_call", 0)
    /\ calls.writer = Issued("writer_call", 0)
    /\ calls.researcher > 0 =>
          /\ calls.researcher <= Len(PlanItems)
          /\ \A i \in 1..Len(PlanItems) :
                /\ Issued("researcher_call", i)
                      = (IF i <= calls.researcher THEN 1 ELSE 0)
                /\ Cardinality({ k \in RepliesOf("researcher") :
                                    replies[k].idx = i }) <= 1
    /\ state = "Done" =>
          /\ calls.researcher = Len(PlanItems)
          /\ \A i \in 1..Len(PlanItems) :
                Cardinality({ k \in RepliesOf("researcher") :
                                 replies[k].idx = i }) = 1
          /\ calls.planner + calls.researcher + calls.writer
                = Len(PlanItems) + 2
          /\ Len(replies) = Len(PlanItems) + 2

\* Done after a failed researcher call and a failed writer call
C11_Witness ==
    /\ state = "Done"
    /\ Len(PlanItems) = 3
    /\ \E k \in RepliesOf("researcher") : ~replies[k].ok
    /\ WriterFailed

(***************************************************************************)
(* C12: in a run where every gateway call succeeds and that has entered    *)
(* Researching, the run ends in Done, FindingSet[i] is the pair of plan    *)
(* item i and the i-th researcher text with surrounding whitespace         *)
(* trimmed, and the published report is the writer's text unchanged.       *)
(***************************************************************************)
AllSucceeded ==
    /\ replies # <<>>
    /\ \A k \in 1..Len(replies) : replies[k].ok

\* the text the gateway returned for the call of this stage and index
TextOf(stage, idx) ==
    LET k == CHOOSE k \in RepliesOf(stage) : replies[k].idx = idx
    IN  replies[k].text

C12_AllSucceedDone ==
    AllSucceeded =>
       /\ (Shown("researcher_call") /\ outstanding = {}) => state = "Done"
       /\ state = "Done" =>
             /\ Len(FindingSet) = Len(PlanItems)
             /\ \A i \in 1..Len(PlanItems) :
                   FindingSet[i] =
                      [question |-> PlanItems[i],
                       answer   |-> Strip(TextOf("researcher", i))]
             /\ session_state.report # <<>>
             /\ session_state.report[1].val = TextOf("writer", 0)
             /\ Shown("report_ready")

\* the original statement: every gateway call succeeded, so the finished
\* run is in Done
C12_Original ==
    (AllSucceeded /\ outstanding = {}) => state = "Done"

\* answers and report came back with surrounding whitespace
C12_Witness ==
    /\ state = "Done"
    /\ AllSucceeded
    /\ Len(PlanItems) = 2
    /\ TextOf("researcher", 2) = <<" ", "Answer-B", "\n">>
    /\ FindingSet[2].answer = <<"Answer-B">>
    /\ TextOf("writer", 0) = <<" ", "# Report", "\n">>

(***************************************************************************)
(* C13: in front of a mocked gateway that answers a fixed input with a     *)
(* fixed output, two finished runs with the same topic have received the   *)
(* same sequence of gateway calls and replies, shown the same events, and  *)
(* ended in the same state with the same plan, FindingSet and report.      *)
(***************************************************************************)
C13_Deterministic ==
    (mock.fixed /\ topic # "" /\ state \in {"Done", "Aborted"}) =>
       \A h \in 1..Len(history) :
          history[h].topic = topic =>
             /\ history[h].replies = replies
             /\ history[h].trace = trace
             /\ history[h].state = state
             /\ history[h].session = SessionValues(session_state)

\* a second run to Done, with a degraded answer, after a first such run
C13_Witness ==
    /\ mock.fixed
    /\ history # <<>>
    /\ history[1].topic = topic
    /\ history[1].state = "Done"
    /\ state = "Done"
    /\ Len(PlanItems) >= 2
    /\ \E k \in RepliesOf("researcher") : ~replies[k].ok
    /\ \E k \in RepliesOf("researcher") : replies[k].ok

(***************************************************************************)
(* C14: a successful planner call returns the parsed array as it is: as    *)
(* many items as the response text has elements, in the same order, with   *)
(* duplicates kept and no limit of length; a non-empty plan goes to        *)
(* Researching with one researcher call per element.                       *)
(***************************************************************************)
C14_PlanIsParsedArray ==
    \A k \in RepliesOf("planner") :
       (replies[k].ok /\ JsonLoads(replies[k].text).type = "array") =>
          LET elems == SelectSeq(replies[k].text, IsScalarTok)
              plan  == create_research_plan(Reply(replies[k].text))
          IN  /\ Len(plan.items) = Len(elems)
              /\ \A i \in 1..Len(elems) :
                    plan.items[i] = [type |-> elems[i].t, val |-> elems[i].v]
              /\ elems = <<>> => state = "Aborted"
              /\ elems # <<>> =>
                    /\ state \in {"Researching", "Writing", "Done"}
                    /\ session_state.plan # <<>>
                    /\ Len(PlanItems) = Len(elems)
                    /\ \A i \in 1..Len(elems) :
                          PlanItems[i].val = elems[i].v
                    /\ calls.researcher <= Len(elems)
                    /\ state \in {"Writing", "Done"} =>
                          /\ calls.researcher = Len(elems)
                          /\ Len(FindingSet) = Len(elems)

\* a plan longer than the prompt asks for, with duplicates, fully researched
C14_Witness ==
    /\ state = "Done"
    /\ Len(PlanItems) > PromptMaxQuestions
    /\ PlanItems[2] = PlanItems[3]
    /\ Len(FindingSet) = Len(PlanItems)

(***************************************************************************)
(* C15: the events are shown in pipeline order: plan-ready before every    *)
(* per-question event; the event of question i right before the researcher *)
(* call of question i and after the call of question i-1 has returned;     *)
(* findings-ready after the last researcher call has returned and before   *)
(* the writer call; report-ready only after the writer call has returned.  *)
(***************************************************************************)
Before(ev1, idx1, k) == \E j \in 1..(k - 1) : trace[j] = Ev(ev1, idx1)

C15_EventsInPipelineOrder ==
    \A k \in 1..Len(trace) :
       LET e == trace[k]
       IN  /\ e.ev = "progress" =>
                /\ Before("plan_ready", 0, k)
                /\ e.idx > 1 => Before("researcher_returned", e.idx - 1, k)
                /\ ~Before("researcher_call", e.idx, k)
           /\ e.ev = "researcher_call" =>
                /\ k > 1
                /\ trace[k - 1] = Ev("progress", e.idx)
           /\ e.ev = "findings_ready" =>
                /\ Before("plan_ready", 0, k)
                /\ \A i \in 1..Len(PlanItems) :
                      Before("researcher_returned", i, k)
                /\ ~Before("writer_call", 0, k)
           /\ e.ev = "writer_call" => Before("findings_ready", 0, k)
           /\ e.ev = "report_ready" =>
                /\ Before("writer_returned", 0, k)
                /\ Before("findings_ready", 0, k)

\* all four kinds of event were shown for a plan of three questions
C15_Witness ==
    /\ Shown("plan_ready")
    /\ \E k \in 1..Len(trace) : trace[k] = Ev("progress", 3)
    /\ Shown("findings_ready")
    /\ Shown("report_ready")

(***************************************************************************)
(* C16: session_state fills up in order: stored findings imply a stored,   *)
(* non-empty plan of the same length, a stored report implies stored       *)
(* findings, and the writer is never called with an empty FindingSet.      *)
(***************************************************************************)
C16_SessionFillsInOrder ==
    /\ session_state.findings # <<>> =>
          /\ session_state.plan # <<>>
          /\ Len(PlanItems) > 0
          /\ Len(FindingSet) = Len(PlanItems)
    /\ session_state.report # <<>> => session_state.findings # <<>>
    /\ \A c \in outstanding : c.stage = "writer" => c.findings # <<>>
    /\ \A k \in RepliesOf("writer") : replies[k].findings # <<>>
    /\ calls.writer > 0 => session_state.findings # <<>>

\* the writer has been called for a plan of one question
C16_Witness ==
    /\ state = "Writing"
    /\ Len(PlanItems) = 1
    /\ \E c \in outstanding : c.stage = "writer" /\ Len(c.findings) = 1

(***************************************************************************)
(* C17: the stored FindingSet is all or nothing: while Researching the     *)
(* findings so far are only in the local research_findings and             *)
(* session_state holds none; once stored, there is one finding per plan    *)
(* item.                                                                   *)
(***************************************************************************)
C17_FindingsAllOrNothing ==
    /\ state \in {"Planning", "Researching"} => session_state.findings = <<>>
    /\ session_state.findings # <<>> =>
          /\ Len(FindingSet) = Len(PlanItems)
          /\ state \in {"Writing", "Done", "Idle"}
    /\ (state \in {"Writing", "Done"}) => FindingSet = research_findings

\* two of three findings are in the local list, none in session_state
C17_Witness ==
    /\ state = "Researching"
    /\ Len(PlanItems) = 3
    /\ Len(research_findings) = 2
    /\ session_state.findings = <<>>

(***************************************************************************)
(* C18: a request refused for its empty topic leaves session_state as the  *)
(* previous run left it: plan, findings and report are not cleared.        *)
(***************************************************************************)
C18_RefusalKeepsSession ==
    [][ (run' # run /\ topic' = "") =>
           /\ session_state' = session_state
           /\ state' = "Idle"
      ]_vars

\* after a refusal the session still holds what an earlier run stored
C18_Witness ==
    /\ topic = ""
    /\ state = "Idle"
    /\ session_state.plan # <<>>
    /\ session_state.plan[1].run < run
    /\ session_state.findings # <<>>
    /\ session_state.findings[1].run < run

(***************************************************************************)
(* C19: if every gateway call eventually returns or fails, every accepted  *)
(* run eventually reaches Done or Aborted; each researcher reply adds one  *)
(* finding, for the next plan item, and the next call is for the item      *)
(* after it.                                                               *)
(***************************************************************************)
C19_RunsTerminate ==
    /\ (state \in {"Planning", "Researching", "Writing"})
          ~> (state \in {"Done", "Aborted"})
    /\ [][ (state = "Researching" /\ run' = run) =>
              /\ Len(research_findings') = Len(research_findings) + 1
              /\ SubSeq(research_findings', 1, Len(research_findings))
                    = research_findings
              /\ Len(research_findings') <= Len(PlanItems)
              /\ research_findings'[Len(research_findings')].question
                    = PlanItems[Len(research_findings')]
              /\ state' = "Researching" =>
                    \A c \in outstanding' :
                       c.idx = Len(research_findings') + 1
         ]_vars

\* a run of three questions has ended
C19_Witness ==
    /\ state = "Done"
    /\ Len(PlanItems) = 3
    /\ Len(research_findings) = 3
    /\ calls.researcher = 3
    /\ outstanding = {}

====
